---- MODULE Spec2Model ----
(***************************************************************************)
(* Model of empilhamentoXLSX.py: the combine worker (CombinerWorker.run),  *)
(* the helpers it calls (is_excel_file, list_excel_files, safe_concat) and *)
(* the shell handlers that start, cancel and observe it (App.on_start,     *)
(* App.on_stop, App.set_status, App._after_poll_log).                      *)
(*                                                                         *)
(* The worker thread and the Tk main loop interleave.  One worker step is  *)
(* one stretch of run() between two reads of shared state: the directory   *)
(* scan, the stop_flag test at the head of the loop, the handling of one   *)
(* file, and the summary/concatenate/write phase.                          *)
(*                                                                         *)
(* Specifications:                                                         *)
(*   Spec         the shell and its workers over several runs              *)
(*   SpecRun      the shell and its first worker, larger directories       *)
(*   SpecFirst    the first run with the warnings of on_start              *)
(*   SpecWorker   the first worker by itself, scheduled fairly             *)
(*   SpecLocator  list_excel_files called on a directory tree              *)
(*   SpecConcat   safe_concat called on a list of tables                   *)
(***************************************************************************)
EXTENDS Integers, Sequences, FiniteSets, TLC

\* Largest number of entries in the source directory, when one run is
\* followed (SpecRun).
MaxFiles == 2
\* Largest number of entries in the source directory, when the shell is
\* followed over several runs (Spec).
MaxFilesMulti == 1
\* Largest number of accepted start requests (workers ever created).
MaxRuns == 2
\* Largest number of presses of the cancel button that reach a live worker,
\* per worker.
MaxStops == 1

\* Most tables in one call of safe_concat, most rows in one of them.
MaxTables == 3
MaxRows == 2

\* Most entries under the directory list_excel_files is called on.
MaxEntries == 3

DEFAULT_SHEET == "Plan1"
VALID_EXTS == {".xlsx", ".xlsm"}
\* The column df.insert adds at position 0 (line 113).
ORIGIN_COL == "Arquivo_Origem"
\* The value DataFrame.reindex puts in a column a table lacked.
NaN == "NaN"

(***************************************************************************)
(* The file system.  A directory entry is a record; the catalogue below    *)
(* holds one entry of each sort the worker tells apart.                    *)
(*   prefix, stem, ext   the parts of the base name                        *)
(*   isfile os.path.isfile                                                 *)
(*   isdir  DirEntry.is_dir, as os.walk asks it                            *)
(*   opens  pd.ExcelFile(path) succeeds                                    *)
(*   sheets xf.sheet_names                                                 *)
(*   reads  pd.read_excel(xf, sheet_name) succeeds                         *)
(*   cols, rows   the table read from the target sheet                     *)
(***************************************************************************)
Kinds == {"lock", "corrupt", "nosheet", "badsheet", "empty", "data", "tagged"}

\* The sorts of entry the file locator tells apart: besides a lock file and
\* two workbooks (.XLSM, .xlsx), a text file, a directory whose name ends in
\* .xlsx, and an entry named like a workbook that is neither a directory nor
\* a regular file (a dangling symbolic link, a FIFO).
LocatorKinds == {"lock", "data", "corrupt", "text", "folder", "link"}

Entry(kind) ==
    CASE kind = "lock" ->
           [prefix |-> "~$", stem |-> "d", ext |-> ".xlsx",
            isfile |-> TRUE, isdir |-> FALSE,
            opens |-> FALSE, sheets |-> {}, reads |-> FALSE,
            cols |-> <<>>, rows |-> <<>>]
      [] kind = "corrupt" ->
           [prefix |-> "", stem |-> "c", ext |-> ".xlsx",
            isfile |-> TRUE, isdir |-> FALSE,
            opens |-> FALSE, sheets |-> {}, reads |-> FALSE,
            cols |-> <<>>, rows |-> <<>>]
      [] kind = "nosheet" ->
           [prefix |-> "", stem |-> "n", ext |-> ".xlsx",
            isfile |-> TRUE, isdir |-> FALSE,
            opens |-> TRUE, sheets |-> {"plan1", "Sheet1"}, reads |-> TRUE,
            cols |-> <<"A">>, rows |-> << <<"7">> >>]
      [] kind = "badsheet" ->
           [prefix |-> "", stem |-> "b", ext |-> ".xlsx",
            isfile |-> TRUE, isdir |-> FALSE,
            opens |-> TRUE, sheets |-> {"Plan1"}, reads |-> FALSE,
            cols |-> <<>>, rows |-> <<>>]
      [] kind = "empty" ->
           [prefix |-> "", stem |-> "e", ext |-> ".xlsx",
            isfile |-> TRUE, isdir |-> FALSE,
            opens |-> TRUE, sheets |-> {"Plan1"}, reads |-> TRUE,
            cols |-> <<"A">>, rows |-> <<>>]
      [] kind = "data" ->
           [prefix |-> "", stem |-> "d", ext |-> ".XLSM",
            isfile |-> TRUE, isdir |-> FALSE,
            opens |-> TRUE, sheets |-> {"Plan1", "Sheet1"}, reads |-> TRUE,
            cols |-> <<"A", "B">>, rows |-> << <<"1", "2">> >>]
      [] kind = "tagged" ->
           [prefix |-> "", stem |-> "t", ext |-> ".xlsx",
            isfile |-> TRUE, isdir |-> FALSE,
            opens |-> TRUE, sheets |-> {"Plan1"}, reads |-> TRUE,
            cols |-> <<ORIGIN_COL, "B">>, rows |-> << <<"old", "3">> >>]
      [] kind = "text" ->
           [prefix |-> "", stem |-> "x", ext |-> ".txt",
            isfile |-> TRUE, isdir |-> FALSE,
            opens |-> FALSE, sheets |-> {}, reads |-> FALSE,
            cols |-> <<>>, rows |-> <<>>]
      [] kind = "folder" ->
           [prefix |-> "", stem |-> "f", ext |-> ".xlsx",
            isfile |-> FALSE, isdir |-> TRUE,
            opens |-> FALSE, sheets |-> {}, reads |-> FALSE,
            cols |-> <<>>, rows |-> <<>>]
      [] kind = "link" ->
           [prefix |-> "", stem |-> "l", ext |-> ".xlsx",
            isfile |-> FALSE, isdir |-> FALSE,
            opens |-> FALSE, sheets |-> {}, reads |-> FALSE,
            cols |-> <<>>, rows |-> <<>>]

\* str.lower on the extensions of the catalogue.
Lower(ext) ==
    CASE ext = ".XLSM" -> ".xlsm"
      [] ext = ".XLSX" -> ".xlsx"
      [] OTHER -> ext

\* name.startswith("~$")
IsLockName(e) == e.prefix = "~$"

is_excel_file(e) ==
    IF IsLockName(e) THEN FALSE ELSE Lower(e.ext) \in VALID_EXTS

\* A path under the source directory: its rank in the lexicographic order of
\* full paths, the kind of the entry found there, and whether it lies in a
\* subdirectory (sub) or is a direct child of the source directory.
TreePath(i, kind, sub) == [path |-> i, kind |-> kind, sub |-> sub]

\* A direct child of the source directory.
Path(i, kind) == TreePath(i, kind, FALSE)

\* os.path.basename(path)
BaseName(p) ==
    Entry(p.kind).prefix \o ToString(p.path) \o Entry(p.kind).stem
        \o Entry(p.kind).ext

RECURSIVE Insert(_, _)
Insert(p, sorted) ==
    IF sorted = <<>> THEN <<p>>
    ELSE IF p.path <= Head(sorted).path THEN <<p>> \o sorted
    ELSE <<Head(sorted)>> \o Insert(p, Tail(sorted))

\* list.sort() on full paths.
RECURSIVE SortPaths(_)
SortPaths(s) == IF s = <<>> THEN <<>> ELSE Insert(Head(s), SortPaths(Tail(s)))

\* `tree` holds every entry under the source directory, in the order the
\* system gives them.  Recursive (lines 27-31): os.walk hands over, as file
\* names, every entry of every directory that is not a directory itself.
\* Not recursive (lines 33-36): the direct children that os.path.isfile
\* accepts.  Either way the Excel files among them, sorted (line 37).
list_excel_files(tree, recursive) ==
    IF recursive
    THEN SortPaths(SelectSeq(tree,
             LAMBDA p : ~Entry(p.kind).isdir /\ is_excel_file(Entry(p.kind))))
    ELSE SortPaths(SelectSeq(tree,
             LAMBDA p : /\ ~p.sub
                        /\ Entry(p.kind).isfile
                        /\ is_excel_file(Entry(p.kind))))

\* A percentage of what is left to do, in place of what is done.
Pct_Remaining(idx, total) == ((total - idx) * 100) \div total

\* int(idx / total * 100).  The float product equals the exact quotient
\* floor(100*idx/total) for every total below 50 (29/50 is the first pair
\* where it is one less).
Pct(idx, total) == (idx * 100) \div total

(***************************************************************************)
(* Tables (pandas DataFrames): [cols: sequence of names, rows: sequence of *)
(* rows, each a sequence of values aligned with cols].                     *)
(***************************************************************************)
Table(cols, rows) == [cols |-> cols, rows |-> rows]

\* A test that lets every table through.
IsEmptyDf_Never(df) == FALSE

\* df.empty: no rows (or no columns).
IsEmptyDf(df) == Len(df.rows) = 0 \/ Len(df.cols) = 0

ColSet(df) == {df.cols[i] : i \in 1..Len(df.cols)}

\* df.insert(0, "Arquivo_Origem", base) raises ValueError when the column
\* is already there.
InsertRaises(df) == ORIGIN_COL \in ColSet(df)

InsertOrigin(df, base) ==
    Table(<<ORIGIN_COL>> \o df.cols,
          [r \in 1..Len(df.rows) |-> <<base>> \o df.rows[r]])

\* Every column name of every table, table after table, left to right: what
\* the two loops of lines 46-47 go through.
RECURSIVE Columns(_)
Columns(dfs) ==
    IF dfs = <<>> THEN <<>> ELSE Head(dfs).cols \o Columns(Tail(dfs))

\* A name is kept at the place where it is met last, not first.
AddCols_LastMet(all, cols) ==
    LET new == {j \in 1..Len(cols) :
                   /\ \A i \in 1..Len(all) : all[i] # cols[j]
                   /\ \A i \in (j + 1)..Len(cols) : cols[i] # cols[j]}
        Nth(n) == CHOOSE j \in new : Cardinality({i \in new : i <= j}) = n
    IN all \o [n \in 1..Cardinality(new) |-> cols[Nth(n)]]

\* Every name is appended, seen before or not.
AddCols_NoSeen(all, cols) == all \o cols

\* all_cols after the loop of lines 47-50 has gone through `cols`: each name
\* not seen before (not in `all`, not earlier in `cols`) is appended, in the
\* order met.
AddCols(all, cols) ==
    LET new == {j \in 1..Len(cols) :
                   /\ \A i \in 1..Len(all) : all[i] # cols[j]
                   /\ \A i \in 1..(j - 1) : cols[i] # cols[j]}
        Nth(n) == CHOOSE j \in new : Cardinality({i \in new : i <= j}) = n
    IN all \o [n \in 1..Cardinality(new) |-> cols[Nth(n)]]

\* The ordered union of lines 44-50.
AllCols(all, dfs) == AddCols(all, Columns(dfs))

ColIndex(df, c) == CHOOSE i \in 1..Len(df.cols) : df.cols[i] = c

\* Values are taken by position, not by column name.
Reindex_ByPosition(df, all) ==
    Table(all,
          [r \in 1..Len(df.rows) |->
              [k \in 1..Len(all) |->
                  IF k <= Len(df.cols) THEN df.rows[r][k] ELSE NaN]])

\* df.reindex(columns=all_cols)
Reindex(df, all) ==
    Table(all,
          [r \in 1..Len(df.rows) |->
              [k \in 1..Len(all) |->
                  IF all[k] \in ColSet(df)
                  THEN df.rows[r][ColIndex(df, all[k])] ELSE NaN]])

RECURSIVE ConcatRows(_)
ConcatRows(dfs) ==
    IF dfs = <<>> THEN <<>> ELSE Head(dfs).rows \o ConcatRows(Tail(dfs))

\* The list `reindexed` of line 51: all_cols is worked out once, and every
\* table is reindexed on it.
Reindexed(dataframes) ==
    LET On(all_cols) ==
            [i \in 1..Len(dataframes) |-> Reindex(dataframes[i], all_cols)]
    IN CHOOSE reindexed \in {On(all_cols) :
                                all_cols \in {AllCols(<<>>, dataframes)}} : TRUE

\* pd.concat(reindexed, ignore_index=True) of tables that share their
\* columns: the rows of each, one table after the other.
safe_concat(dataframes) ==
    IF dataframes = <<>> THEN Table(<<>>, <<>>)
    ELSE Table(AllCols(<<>>, dataframes), ConcatRows(Reindexed(dataframes)))

(***************************************************************************)
(* State.                                                                  *)
(*   listing        os.listdir of the source directory                     *)
(*   btn_start, btn_stop, progress, lbl_status, txt_log   the widgets      *)
(*   dialog         the modal warning shown by messagebox.showwarning      *)
(*   log_q          App.log_q, the queue the worker logs into              *)
(*   after_q        the callbacks scheduled with after(0, ...), in order   *)
(*   stop_flag      App.stop_flag                                          *)
(*   worker         App.worker: 0 for None, else the latest worker         *)
(*   workers        every worker thread ever created, by number            *)
(*   out_file       the output path: <<>> when absent, <<table>> otherwise *)
(*   nextSeq        number of the next event produced (log line, progress  *)
(*                  update); history, to tell the order of production      *)
(*   lastDelivered  largest event number the shell has shown so far        *)
(*   call, ret      a helper called on its own (SpecLocator, SpecConcat):  *)
(*                  its arguments, and <<>> or <<value returned>>          *)
(***************************************************************************)
VARIABLES listing, btn_start, btn_stop, progress, lbl_status, txt_log, dialog,
          log_q, after_q, stop_flag, worker, workers, out_file,
          nextSeq, lastDelivered, call, ret

vars == <<listing, btn_start, btn_stop, progress, lbl_status, txt_log, dialog,
          log_q, after_q, stop_flag, worker, workers, out_file,
          nextSeq, lastDelivered, call, ret>>

\* A module-level function called on its own, apart from any run: `call`
\* holds its arguments, `ret` is <<>> until it returns and <<value>> after.
pure == <<call, ret>>

\* Everything the application itself owns.
app == <<listing, btn_start, btn_stop, progress, lbl_status, txt_log, dialog,
         log_q, after_q, stop_flag, worker, workers, out_file,
         nextSeq, lastDelivered>>

ui == <<btn_start, btn_stop, progress, lbl_status, txt_log, dialog>>

Runs == 1..MaxRuns

\* A worker slot before its thread is created.  pc is the thread's place in
\* run(): "scan" (line 74), "check" (line 88), "read" (lines 93-117),
\* "finish" (lines 119-142), "done" (returned).  directory, sheet_name,
\* recursive, add_filename_col and out_path are the fields of lines 60-64.
\* outcome, fault, pcts, wrote, cancelAt, stops and asked are history: the
\* terminal state of the run, where an exception was raised ("scan", "file",
\* "write", "" for nowhere), the percentages it passed to progress_cb,
\* whether to_excel was called, the file index the worker was at when
\* on_stop first set the flag for it (-1: never), the number of times
\* on_stop set it, and whether on_stop set the flag while the worker was
\* alive.
NoWorker ==
    [pc |-> "none", directory |-> "", sheet_name |-> "", recursive |-> FALSE,
     add_filename_col |-> FALSE, out_path |-> "",
     files |-> <<>>, idx |-> 0, data_frames |-> <<>>, processed |-> 0,
     with_sheet |-> 0, empty_list |-> <<>>, outcome |-> "None",
     fault |-> "", pcts |-> <<>>, wrote |-> FALSE, cancelAt |-> -1,
     stops |-> 0, asked |-> FALSE]

\* threading.Thread.is_alive()
is_alive(w) == workers[w].pc \notin {"none", "done"}

\* Every directory of at most `most` entries; os.listdir gives them in
\* reverse lexicographic order.
Listings(most) ==
    UNION {{[i \in 1..n |-> Path(n + 1 - i, k[n + 1 - i])] : k \in [1..n -> Kinds]}
           : n \in 0..most}

\* The state after App.__init__ (lines 173-184, 224-235).
Constructed ==
    /\ btn_start = "normal"
    /\ btn_stop = "disabled"
    /\ progress = 0
    /\ lbl_status = "Pronto."
    /\ txt_log = <<>>
    /\ dialog = ""
    /\ log_q = <<>>
    /\ after_q = <<>>
    /\ stop_flag = FALSE
    /\ worker = 0
    /\ workers = [w \in Runs |-> NoWorker]
    /\ out_file = <<>>
    /\ nextSeq = 1
    /\ lastDelivered = 0

\* No module-level function is called on its own.
NoCall == call = [fn |-> "none"] /\ ret = <<>>

Init == listing \in Listings(MaxFilesMulti) /\ Constructed /\ NoCall

InitRun == listing \in Listings(MaxFiles) /\ Constructed /\ NoCall

(***************************************************************************)
(* The worker.                                                             *)
(***************************************************************************)
\* The lines are logged; no progress update is scheduled.
Emit_LogsOnly(w, logs, prog) ==
    /\ log_q' = log_q \o
          [i \in 1..Len(logs) |->
              [seq |-> nextSeq + i - 1, run |-> w,
               tag |-> logs[i][1], arg |-> logs[i][2]]]
    /\ after_q' = after_q
    /\ nextSeq' = nextSeq + Len(logs)

\* self.log(...) for each of `logs` (<<tag, argument>> pairs), then
\* self.progress_cb(pct, msg) when `prog` is <<pct, msg>>.
Emit(w, logs, prog) ==
    /\ log_q' = log_q \o
          [i \in 1..Len(logs) |->
              [seq |-> nextSeq + i - 1, run |-> w,
               tag |-> logs[i][1], arg |-> logs[i][2]]]
    /\ after_q' = IF Len(prog) = 0 THEN after_q
                  ELSE Append(after_q,
                         [seq |-> nextSeq + Len(logs), run |-> w,
                          pct |-> prog[1], msg |-> prog[2]])
    /\ nextSeq' = nextSeq + Len(logs) + (IF Len(prog) = 0 THEN 0 ELSE 1)

\* The handler of line 143 logs three lines, then progress_cb(100, "Erro.").
FatalLogs == << <<"ERRO FATAL", "">>, <<"ERRO FATAL", "str(e)">>,
               <<"ERRO FATAL", "traceback">> >>

\* Line 74 raises (the directory vanished after on_start checked it).
WScanFails(w) ==
    /\ workers[w].pc = "scan"
    /\ Emit(w, FatalLogs, <<100, "Erro.">>)
    /\ workers' = [workers EXCEPT ![w].pc = "done", ![w].outcome = "Error",
                      ![w].fault = "scan", ![w].pcts = Append(@, 100)]
    /\ UNCHANGED <<listing, ui, stop_flag, worker, out_file, lastDelivered>>
    /\ UNCHANGED pure

\* Lines 74-85.
WScan(w) ==
    /\ workers[w].pc = "scan"
    /\ \E files \in {list_excel_files(listing, workers[w].recursive)} :
       LET total == Len(files)
       IN IF total = 0
          THEN /\ Emit(w, << <<"NENHUM ARQUIVO", "">> >>,
                       <<0, "Pronto (0 arquivos).">>)
               /\ workers' = [workers EXCEPT ![w].pc = "done",
                                 ![w].outcome = "NoFiles",
                                 ![w].pcts = Append(@, 0)]
          ELSE /\ Emit(w, << <<"CANDIDATOS", total>> >>, <<>>)
               /\ workers' = [workers EXCEPT ![w].pc = "check",
                                 ![w].files = files, ![w].idx = 1]
    /\ UNCHANGED <<listing, ui, stop_flag, worker, out_file, lastDelivered>>
    /\ UNCHANGED pure

\* Lines 88-91: the test of the cancellation flag at the head of the loop.
WCheck(w) ==
    /\ workers[w].pc = "check"
    /\ LET me == workers[w]
           total == Len(me.files)
       IN IF stop_flag
          THEN /\ Emit(w, << <<"CANCELADO", "">> >>,
                       <<Pct(me.idx, total), "Cancelado.">>)
               /\ workers' = [workers EXCEPT ![w].pc = "done",
                                 ![w].outcome = "Cancelled",
                                 ![w].pcts = Append(@, Pct(me.idx, total))]
          ELSE /\ workers' = [workers EXCEPT ![w].pc = "read"]
               /\ UNCHANGED <<log_q, after_q, nextSeq>>
    /\ UNCHANGED <<listing, ui, stop_flag, worker, out_file, lastDelivered>>
    /\ UNCHANGED pure

\* `continue` or the end of the loop body: the next file, or line 119.
NextPc(idx, total) == IF idx < total THEN "check" ELSE "finish"

\* str.lower on the sheet names of the catalogue.
LowerName(n) == IF n = "Plan1" THEN "plan1" ELSE n

\* A match of the sheet name that ignores case.
LacksSheet_IgnoringCase(e, sheet_name) ==
    \A n \in e.sheets : LowerName(n) # LowerName(sheet_name)

\* `self.sheet_name not in xf.sheet_names`
LacksSheet(e, sheet_name) == sheet_name \notin e.sheets

\* Lines 93-117: one file.
WRead(w) ==
    /\ workers[w].pc = "read"
    /\ LET me == workers[w]
           total == Len(me.files)
           p == me.files[me.idx]
           e == Entry(p.kind)
           base == BaseName(p)
           pct == Pct(me.idx, total)
           df == Table(e.cols, e.rows)
           next == [me EXCEPT !.pc = NextPc(me.idx, total), !.idx = @ + 1,
                              !.pcts = Append(@, pct)]
       IN IF ~e.opens
          THEN /\ Emit(w, << <<"ERRO", base>> >>, <<pct, "Erro: " \o base>>)
               /\ workers' = [workers EXCEPT ![w] = next]
          ELSE IF LacksSheet(e, me.sheet_name)
          THEN /\ Emit(w, << <<"PULADO", base>> >>, <<pct, "Pulado: " \o base>>)
               /\ workers' = [workers EXCEPT ![w] = next]
          ELSE IF ~e.reads
          THEN /\ Emit(w, << <<"ERRO", base>> >>, <<pct, "Erro: " \o base>>)
               /\ workers' = [workers EXCEPT
                                 ![w] = [next EXCEPT !.with_sheet = @ + 1]]
          ELSE IF IsEmptyDf(df)
          THEN /\ Emit(w, <<>>, <<pct, "Lido: " \o base>>)
               /\ workers' = [workers EXCEPT ![w] =
                    [next EXCEPT !.with_sheet = @ + 1,
                                 !.empty_list = Append(@, base),
                                 !.processed = @ + 1]]
          ELSE IF me.add_filename_col /\ InsertRaises(df)
          THEN /\ Emit(w, FatalLogs, <<100, "Erro.">>)
               /\ workers' = [workers EXCEPT ![w] =
                    [me EXCEPT !.pc = "done", !.outcome = "Error",
                               !.fault = "file", !.with_sheet = @ + 1,
                               !.pcts = Append(@, 100)]]
          ELSE /\ Emit(w, <<>>, <<pct, "Lido: " \o base>>)
               /\ workers' = [workers EXCEPT ![w] =
                    [next EXCEPT !.with_sheet = @ + 1,
                                 !.data_frames = Append(@,
                                     IF me.add_filename_col
                                     THEN InsertOrigin(df, base) ELSE df),
                                 !.processed = @ + 1]]
    /\ UNCHANGED <<listing, ui, stop_flag, worker, out_file, lastDelivered>>
    /\ UNCHANGED pure

\* Lines 119-121.
SummaryLogs(me) ==
    << <<"LIDOS", <<me.processed, me.with_sheet>> >> >> \o
    (IF me.empty_list # <<>> THEN << <<"VAZIAS", me.empty_list>> >> ELSE <<>>)

\* The test of line 123 left out.
NothingToCombine_Never(data_frames) == FALSE

\* `if not data_frames` (line 123)
NothingToCombine(data_frames) == data_frames = <<>>

\* Lines 119-126: every file visited and nothing retained.
WFinishNoData(w) ==
    /\ workers[w].pc = "finish"
    /\ NothingToCombine(workers[w].data_frames)
    /\ Emit(w, SummaryLogs(workers[w]) \o << <<"NENHUM DADO", "">> >>,
            <<100, "Pronto (sem dados).">>)
    /\ workers' = [workers EXCEPT ![w].pc = "done", ![w].outcome = "NoData",
                                  ![w].pcts = Append(@, 100)]
    /\ UNCHANGED <<listing, ui, stop_flag, worker, out_file, lastDelivered>>
    /\ UNCHANGED pure

\* Lines 119-142 when the write succeeds.
WFinishSaved(w) ==
    /\ workers[w].pc = "finish"
    /\ ~NothingToCombine(workers[w].data_frames)
    /\ \E combined \in {safe_concat(workers[w].data_frames)} :
          /\ out_file' = <<combined>>
          /\ Emit(w, SummaryLogs(workers[w]) \o
                     << <<"SUCESSO", Len(combined.rows)>>, <<"SALVO", "">> >>,
                  <<100, "Concluido.">>)
    /\ workers' = [workers EXCEPT ![w].pc = "done",
                      ![w].outcome = "Completed", ![w].wrote = TRUE,
                      ![w].pcts = Append(@, 100)]
    /\ UNCHANGED <<listing, ui, stop_flag, worker, lastDelivered>>
    /\ UNCHANGED pure

\* Lines 119-138 when os.makedirs or to_excel raises: what was at the output
\* path is still there (the failure came before the file was opened) or is
\* lost.
WFinishSaveFails(w) ==
    /\ workers[w].pc = "finish"
    /\ ~NothingToCombine(workers[w].data_frames)
    /\ out_file' \in {out_file, <<>>}
    /\ Emit(w, SummaryLogs(workers[w]) \o << <<"ERRO AO SALVAR", "">> >>,
            <<100, "Erro ao salvar.">>)
    /\ workers' = [workers EXCEPT ![w].pc = "done", ![w].outcome = "Error",
                      ![w].fault = "write", ![w].wrote = TRUE,
                      ![w].pcts = Append(@, 100)]
    /\ UNCHANGED <<listing, ui, stop_flag, worker, lastDelivered>>
    /\ UNCHANGED pure

(***************************************************************************)
(* list_excel_files called on its own.                                     *)
(***************************************************************************)
\* Every tree of at most `most` entries, each a direct child of the source
\* directory or inside a subdirectory of it; the system gives them in
\* reverse lexicographic order.
Trees(most) ==
    UNION {{[i \in 1..n |-> TreePath(n + 1 - i, k[n + 1 - i], d[n + 1 - i])]
              : k \in [1..n -> LocatorKinds], d \in [1..n -> BOOLEAN]}
           : n \in 0..most}

\* A call of list_excel_files(root_dir, recursive) on the tree under
\* root_dir.
InitLocator ==
    /\ listing = <<>>
    /\ Constructed
    /\ \E tree \in Trees(MaxEntries), recursive \in BOOLEAN :
          call = [fn |-> "list_excel_files", tree |-> tree,
                  recursive |-> recursive]
    /\ ret = <<>>

\* list_excel_files returns (lines 24-38).
LocatorReturns ==
    /\ ret = <<>>
    /\ ret' = <<list_excel_files(call.tree, call.recursive)>>
    /\ UNCHANGED <<call, app>>

NextLocator == LocatorReturns

SpecLocator == InitLocator /\ [][NextLocator]_vars

(***************************************************************************)
(* safe_concat called on its own.                                          *)
(***************************************************************************)
\* The column lists of the tables handed to safe_concat: one or two names
\* out of three, in any order.
ColNames == {"A", "B", "C"}

ColLists ==
    {<<a>> : a \in ColNames}
      \cup {<<p[1], p[2]>> : p \in {q \in ColNames \X ColNames : q[1] # q[2]}}

\* The value of row r, column c of the t-th table: no two cells alike.
Cell(t, r, c) == ToString(t) \o ToString(r) \o c

\* The tables the t-th retained table is drawn from, of one row or of
\* MaxRows rows: run() keeps no table without rows (lines 109-114).
Frames(t) ==
    {Table(cs, [r \in 1..n |-> [k \in 1..Len(cs) |-> Cell(t, r, cs[k])]])
       : cs \in ColLists, n \in {1, MaxRows}}

\* The lists of tables safe_concat is called with.
\* The lists of tables a caller starts from: none, or one table.
FrameLists == {<<>>} \cup {<<df>> : df \in Frames(1)}

\* The list of tables safe_concat will be called with.  `given` keeps the
\* tables of the first call; `called` tells that safe_concat has been called,
\* `again` that dataframes is the reindexed list of the first call.
InitConcat ==
    /\ listing = <<>>
    /\ Constructed
    /\ \E dfs \in FrameLists :
          call = [fn |-> "safe_concat", dataframes |-> dfs, given |-> dfs,
                  called |-> FALSE, again |-> FALSE]
    /\ ret = <<>>

\* The caller appends one more table to the list (line 115).
ConcatFrame ==
    /\ ~call.called
    /\ Len(call.dataframes) < MaxTables
    /\ \E df \in Frames(Len(call.dataframes) + 1) :
          call' = [call EXCEPT !.dataframes = Append(@, df),
                               !.given = Append(@, df)]
    /\ UNCHANGED <<ret, app>>

\* safe_concat is called and returns (lines 40-52).
ConcatReturns ==
    /\ ret = <<>>
    /\ call' = [call EXCEPT !.called = TRUE]
    /\ ret' = <<safe_concat(call.dataframes)>>
    /\ UNCHANGED app

\* safe_concat is called once more, on the tables it reindexed (line 51).
ConcatAgain ==
    /\ ret # <<>>
    /\ ~call.again
    /\ call' = [call EXCEPT !.dataframes = Reindexed(call.dataframes),
                            !.again = TRUE]
    /\ ret' = <<>>
    /\ UNCHANGED app

NextConcat == ConcatFrame \/ ConcatReturns \/ ConcatAgain

SpecConcat == InitConcat /\ [][NextConcat]_vars

(***************************************************************************)
(* The shell (Tk main loop).                                               *)
(***************************************************************************)
\* What the entry fields and the check boxes may hold when the start button
\* is pressed: a directory that is empty text, no directory, or the source
\* directory; a sheet name, possibly blank; an output path; the
\* Arquivo_Origem option.  "Varrer subpastas" stays as constructed (line
\* 175): the source directory of a run has no subdirectory to tell the two
\* settings apart.
Configs ==
    [directory : {"", "missing", "source"}, sheet : {"", " ", DEFAULT_SHEET},
     out : {"", "out.xlsx"}, recursive : {FALSE}, add : BOOLEAN]

\* str.strip (lines 275-277): blank text becomes empty text.
Strip(s) == IF s = " " THEN "" ELSE s

\* os.path.isdir
IsDir(d) == d = "source"

\* The output path is not looked at.
Rejection_NoOutput(cfg) ==
    IF Strip(cfg.directory) = "" \/ ~IsDir(Strip(cfg.directory))
    THEN "Selecione uma pasta valida."
    ELSE IF Strip(cfg.sheet) = "" THEN "Informe o nome da aba a empilhar."
    ELSE ""

\* Lines 279-287: the warning on_start shows, "" when the fields are valid.
Rejection(cfg) ==
    IF Strip(cfg.directory) = "" \/ ~IsDir(Strip(cfg.directory))
    THEN "Selecione uma pasta valida."
    ELSE IF Strip(cfg.sheet) = "" THEN "Informe o nome da aba a empilhar."
    ELSE IF Strip(cfg.out) = "" THEN "Escolha onde salvar o arquivo final."
    ELSE ""

\* `if pct >= 100` of set_status (line 328).
Finished(pct) == pct >= 100

\* The warnings on_start can show.
Warnings == {Rejection(cfg) : cfg \in Configs} \ {""}

\* A press of the start button with fields that draw the warning `msg`
\* (lines 279-287): the warning, and nothing else.
on_start_rejected(msg) ==
    /\ btn_start = "normal"
    /\ dialog = ""
    /\ msg \in Warnings
    /\ dialog' = msg
    /\ UNCHANGED <<listing, btn_start, btn_stop, progress, lbl_status, txt_log,
                   log_q, after_q, stop_flag, worker, workers, out_file,
                   nextSeq, lastDelivered>>
    /\ UNCHANGED pure

\* The stop flag after a start has left it behind, held over from the run
\* before.
Cleared_Not == stop_flag

\* stop_flag.clear() (line 293)
Cleared == FALSE

\* A press of the start button with valid fields (lines 289-306): clear_log,
\* set_status(0, ...), disable_inputs(True), stop_flag.clear(), and a new
\* worker thread, started.  A disabled button takes no press.
on_start(cfg) ==
    /\ btn_start = "normal"
    /\ dialog = ""
    /\ Rejection(cfg) = ""
    /\ worker < MaxRuns
    /\ txt_log' = <<>>
    /\ progress' = 0
    /\ lbl_status' = "Iniciando..."
    /\ btn_start' = "disabled"
    /\ btn_stop' = "normal"
    /\ stop_flag' = Cleared
    /\ worker' = worker + 1
    /\ workers' = [workers EXCEPT ![worker + 1] =
                      [NoWorker EXCEPT !.pc = "scan",
                                       !.directory = Strip(cfg.directory),
                                       !.sheet_name = Strip(cfg.sheet),
                                       !.recursive = cfg.recursive,
                                       !.add_filename_col = cfg.add,
                                       !.out_path = Strip(cfg.out)]]
    /\ UNCHANGED <<listing, dialog, log_q, after_q, out_file, nextSeq,
                   lastDelivered>>
    /\ UNCHANGED pure

\* The user closes the warning.
Dismiss ==
    /\ dialog # ""
    /\ dialog' = ""
    /\ UNCHANGED <<listing, btn_start, btn_stop, progress, lbl_status, txt_log,
                   log_q, after_q, stop_flag, worker, workers, out_file,
                   nextSeq, lastDelivered>>
    /\ UNCHANGED pure

\* Any worker will do, alive or not.
CanCancel_NoAliveTest == worker # 0

\* `self.worker and self.worker.is_alive()` (line 309)
CanCancel == worker # 0 /\ is_alive(worker)

\* A press of the cancel button (lines 308-311).  append_log writes the line
\* straight into the log widget.
on_stop ==
    /\ btn_stop = "normal"
    /\ dialog = ""
    /\ CanCancel => workers[worker].stops < MaxStops
    /\ IF CanCancel
       THEN /\ stop_flag' = TRUE
            /\ txt_log' = Append(txt_log,
                  [seq |-> nextSeq, run |-> 0, tag |-> "SOLICITANDO", arg |-> ""])
            /\ nextSeq' = nextSeq + 1
            /\ lastDelivered' = nextSeq
            /\ workers' = [w \in Runs |->
                  IF w = worker
                  THEN [workers[w] EXCEPT
                           !.stops = @ + 1,
                           !.cancelAt = IF @ = -1 THEN workers[w].idx ELSE @,
                           !.asked = TRUE]
                  ELSE IF is_alive(w)
                       THEN [workers[w] EXCEPT !.asked = TRUE]
                       ELSE workers[w]]
       ELSE UNCHANGED <<stop_flag, txt_log, nextSeq, lastDelivered, workers>>
    /\ UNCHANGED <<listing, btn_start, btn_stop, progress, lbl_status, dialog,
                   log_q, after_q, worker, out_file>>
    /\ UNCHANGED pure

\* The callback scheduled by update_progress_threadsafe runs:
\* set_status(pct, msg), lines 324-329.
AfterCallback ==
    /\ after_q # <<>>
    /\ LET ev == Head(after_q)
       IN /\ progress' = ev.pct
          /\ lbl_status' = ev.msg
          /\ IF Finished(ev.pct)
             THEN btn_start' = "normal" /\ btn_stop' = "disabled"
             ELSE UNCHANGED <<btn_start, btn_stop>>
          /\ lastDelivered' = IF ev.seq > lastDelivered THEN ev.seq
                               ELSE lastDelivered
    /\ after_q' = Tail(after_q)
    /\ UNCHANGED <<listing, txt_log, dialog, log_q, stop_flag, worker, workers,
                   out_file, nextSeq>>
    /\ UNCHANGED pure

\* _after_poll_log (lines 346-354): every queued message goes to the log
\* widget, in queue order.
Poll ==
    /\ txt_log' = txt_log \o log_q
    /\ log_q' = <<>>
    /\ lastDelivered' =
          IF log_q = <<>> THEN lastDelivered
          ELSE IF log_q[Len(log_q)].seq > lastDelivered
               THEN log_q[Len(log_q)].seq ELSE lastDelivered
    /\ UNCHANGED <<listing, btn_start, btn_stop, progress, lbl_status, dialog,
                   after_q, stop_flag, worker, workers, out_file, nextSeq>>
    /\ UNCHANGED pure

\* What the shell does while a worker runs.
Shell ==
    \/ on_stop
    \/ AfterCallback
    \/ Poll

Worker ==
    \/ \E w \in Runs : WScan(w)
    \/ \E w \in Runs : WScanFails(w)
    \/ \E w \in Runs : WCheck(w)
    \/ \E w \in Runs : WRead(w)
    \/ \E w \in Runs : WFinishNoData(w)
    \/ \E w \in Runs : WFinishSaved(w)
    \/ \E w \in Runs : WFinishSaveFails(w)

\* The shell and its workers, over up to MaxRuns runs.
Next ==
    \/ \E cfg \in Configs : on_start(cfg)
    \/ \E msg \in Warnings : on_start_rejected(msg)
    \/ Dismiss
    \/ Shell
    \/ Worker

Spec == Init /\ [][Next]_vars

\* The shell and its first worker: the first run of a controller, from the
\* accepted press of the start button to the last event shown.
NextRun ==
    \/ \E cfg \in Configs : worker = 0 /\ on_start(cfg)
    \/ Shell
    \/ Worker

SpecRun == InitRun /\ [][NextRun]_vars

\* The shell with its warning and its first worker: start requests, turned
\* down or accepted, before the first run, and turned down after it.
NextFirst ==
    \/ \E cfg \in Configs : worker = 0 /\ on_start(cfg)
    \/ \E msg \in Warnings : on_start_rejected(msg)
    \/ Dismiss
    \/ Shell
    \/ Worker

SpecFirst == Init /\ [][NextFirst]_vars

\* The first worker by itself, from its creation on: what it puts into the
\* two queues stays there, the shell only starts it and asks it to stop.
\* The thread is scheduled as long as it has a step to take.
NextWorker ==
    \/ \E cfg \in Configs : worker = 0 /\ on_start(cfg)
    \/ on_stop
    \/ Worker

SpecWorker == InitRun /\ [][NextWorker]_vars /\ WF_vars(Worker)

(***************************************************************************)
(* Properties.                                                             *)
(***************************************************************************)
Last(s) == s[Len(s)]

\* The terminal states of section 4.5, as the run's last status tells them.
Terminal == {"Completed", "Cancelled", "Error", "NoFiles", "NoData"}

Ended(w) == workers[w].pc = "done"

\* What the file at path p gives for the target sheet: nothing when it cannot
\* be opened or read or lacks the sheet, a table otherwise.
Readable(p, sheet_name) ==
    /\ Entry(p.kind).opens
    /\ sheet_name \in Entry(p.kind).sheets
    /\ Entry(p.kind).reads

HasRows(p, sheet_name) == Readable(p, sheet_name) /\ Entry(p.kind).rows # <<>>

ZeroRows(p, sheet_name) == Readable(p, sheet_name) /\ Entry(p.kind).rows = <<>>

\* The files the worker has gone through: those before the one it is at.
Visited(me) == SubSeq(me.files, 1, me.idx - 1)

\* Every event the worker of run w has logged, shown or still queued.
Logged(w) ==
    {log_q[i] : i \in {j \in 1..Len(log_q) : log_q[j].run = w}} \cup
    {txt_log[i] : i \in {j \in 1..Len(txt_log) : txt_log[j].run = w}}

\* C1: at most one combine run is active at any time: a start request made
\* while an earlier worker has not finished (the concatenate-and-write phase
\* included) spawns no second worker.
C1_OneActiveRun == Cardinality({w \in Runs : is_alive(w)}) <= 1

\* C2: a cancellation requested while the worker is at a file (any index, the
\* last one included) ends the run Cancelled after at most one further file,
\* with no output file written.  Runs in which an exception was raised are
\* left aside: they end in Error whatever the user asked.
C2_CancelEndsCancelled ==
    \A w \in Runs :
        LET me == workers[w]
        IN (Ended(w) /\ me.fault = ""
              /\ me.cancelAt >= 1 /\ me.cancelAt <= Len(me.files))
           => /\ me.outcome = "Cancelled"
              /\ ~me.wrote
              /\ me.idx <= me.cancelAt + 1

\* C3: a run that ends Completed, Error, NoFiles or NoData emits 100 as its
\* last progress percentage.
C3_FinalPct100 ==
    \A w \in Runs :
        (Ended(w) /\ workers[w].outcome \in Terminal \ {"Cancelled"})
        => Last(workers[w].pcts) = 100

\* C4: a run cancelled after k of total files were gone through (idx - 1 of
\* them) emits floor(k / total * 100) as its last progress percentage.
C4_CancelledPct ==
    \A w \in Runs :
        LET me == workers[w]
        IN (Ended(w) /\ me.outcome = "Cancelled")
           => Last(me.pcts) = ((me.idx - 1) * 100) \div Len(me.files)

\* The file the worker of run w is at cannot be opened or read, or cannot be
\* handled (the origin column cannot be inserted).
FileFails(w) ==
    LET me == workers[w]
        p == me.files[me.idx]
    IN \/ ~Entry(p.kind).opens
       \/ me.sheet_name \in Entry(p.kind).sheets /\ ~Entry(p.kind).reads
       \/ /\ HasRows(p, me.sheet_name)
          /\ me.add_filename_col
          /\ ORIGIN_COL \in {Entry(p.kind).cols[i] :
                                i \in 1..Len(Entry(p.kind).cols)}

\* C5: a failure confined to one file never aborts the batch: the step that
\* handles a failing file logs an error entry for it, emits a progress
\* update and leaves the worker at the next candidate (or past the last one),
\* not in the Error state.
C5_FileFaultIsolated ==
    [][\A w \in Runs :
          (workers[w].pc = "read" /\ workers'[w].pc # "read" /\ FileFails(w))
          => /\ workers'[w].pc \in {"check", "finish"}
             /\ workers'[w].idx = workers[w].idx + 1
             /\ workers'[w].outcome # "Error"
             /\ Len(workers'[w].pcts) = Len(workers[w].pcts) + 1
             /\ Len(log_q') > 0
             /\ Last(log_q').tag = "ERRO"
             /\ Last(log_q').seq >= nextSeq]_vars

\* C6: the shell shows the worker's log lines and progress updates, and the
\* lines it writes into the log itself, in the order they were produced:
\* nothing still waiting to be shown is older than something already shown.
C6_DeliveredInOrder ==
    /\ \A i \in 1..Len(log_q) : log_q[i].seq > lastDelivered
    /\ \A i \in 1..Len(after_q) : after_q[i].seq > lastDelivered

\* C7: no write of the output file is attempted in a run that ends Cancelled,
\* NoFiles or NoData; a write is attempted only once every candidate has been
\* gone through, cancellation was not observed and a table was retained; a
\* directory with no candidate, once listed, gives NoFiles.
C7_WriteOnlyWithData ==
    \A w \in Runs :
        LET me == workers[w]
        IN /\ me.outcome \in {"Cancelled", "NoFiles", "NoData"} => ~me.wrote
           /\ me.wrote => /\ me.idx = Len(me.files) + 1
                          /\ me.data_frames # <<>>
                          /\ me.outcome \in {"Completed", "Error"}
           /\ out_file # <<>> => \E v \in Runs : workers[v].wrote
           /\ (Ended(w) /\ me.fault # "scan"
                 /\ \A i \in 1..Len(listing) :
                       \/ Entry(listing[i].kind).prefix = "~$"
                       \/ Lower(Entry(listing[i].kind).ext) \notin VALID_EXTS)
              => me.outcome = "NoFiles"

\* A run cancelled after a table was retained: nothing was written.
C7_Witness ==
    \E w \in Runs :
        /\ workers[w].outcome = "Cancelled"
        /\ workers[w].data_frames # <<>>
        /\ ~workers[w].wrote
        /\ out_file = <<>>

\* The tables a worker retains from the files `fs`, in order: those of the
\* files with rows, with the origin column when the option is on.
RECURSIVE Retained(_, _, _)
Retained(fs, sheet_name, add) ==
    IF fs = <<>> THEN <<>>
    ELSE LET p == Head(fs)
             e == Entry(p.kind)
         IN (IF HasRows(p, sheet_name)
             THEN << [cols |-> IF add THEN <<ORIGIN_COL>> \o e.cols ELSE e.cols,
                      rows |-> [r \in 1..Len(e.rows) |->
                                   IF add THEN <<BaseName(p)>> \o e.rows[r]
                                   ELSE e.rows[r]]] >>
             ELSE <<>>) \o Retained(Tail(fs), sheet_name, add)

\* The base names of the files of `fs` whose target sheet has no data row.
RECURSIVE EmptyOnes(_, _)
EmptyOnes(fs, sheet_name) ==
    IF fs = <<>> THEN <<>>
    ELSE (IF ZeroRows(Head(fs), sheet_name) THEN <<BaseName(Head(fs))>> ELSE <<>>)
         \o EmptyOnes(Tail(fs), sheet_name)

\* C8: a run over at least one candidate that was not cancelled ends NoData
\* exactly when every candidate was skipped, errored or had no data row; a
\* file with no data row is in the empty-sheets list and gives no table.
C8_NoDataIffNothingRetained ==
    \A w \in Runs :
        LET me == workers[w]
        IN /\ (Ended(w) /\ me.outcome # "Cancelled" /\ Len(me.files) >= 1)
              => (me.outcome = "NoData"
                    <=> \A i \in 1..Len(me.files) :
                            ~HasRows(me.files[i], me.sheet_name))
           /\ is_alive(w) \/ Ended(w)
              => /\ me.empty_list = EmptyOnes(Visited(me), me.sheet_name)
                 /\ Len(me.data_frames) =
                       Cardinality({i \in 1..Len(Visited(me)) :
                                       HasRows(me.files[i], me.sheet_name)})
                 /\ \A j \in 1..Len(me.data_frames) :
                       me.data_frames[j].rows # <<>>

\* A run that ended NoData after going through a file with no data row.
C8_Witness ==
    \E w \in Runs :
        /\ workers[w].outcome = "NoData"
        /\ workers[w].empty_list # <<>>
        /\ Len(workers[w].files) > Len(workers[w].empty_list)

\* C9: a candidate that lacks the target sheet (exact match of the name) gets
\* a skip entry in the log and gives no table, and the run goes on: a run
\* that ends neither Cancelled nor in Error has gone through every file and
\* retained exactly the tables of the valid ones, and, when there is one,
\* ends Completed with their concatenation written.
C9_MissingSheetSkipped ==
    \A w \in Runs :
        LET me == workers[w]
            lacking == {i \in 1..Len(me.files) :
                           /\ Entry(me.files[i].kind).opens
                           /\ me.sheet_name \notin Entry(me.files[i].kind).sheets}
        IN /\ \A i \in lacking :
                 i < me.idx => \E m \in Logged(w) :
                                  m.tag = "PULADO" /\ m.arg = BaseName(me.files[i])
           /\ lacking # {}
              => /\ me.data_frames
                      = Retained(Visited(me), me.sheet_name, me.add_filename_col)
                 /\ (Ended(w) /\ me.outcome \notin {"Cancelled", "Error"})
                    => /\ me.idx = Len(me.files) + 1
                       /\ me.data_frames # <<>>
                          => /\ me.outcome = "Completed"
                             /\ out_file = <<safe_concat(
                                   Retained(me.files, me.sheet_name,
                                            me.add_filename_col))>>

\* A completed run that skipped a file lacking the sheet and then read a valid
\* one.
C9_Witness ==
    \E w \in Runs :
        /\ workers[w].outcome = "Completed"
        /\ Len(workers[w].files) >= 2
        /\ workers[w].sheet_name \notin Entry(workers[w].files[1].kind).sheets
        /\ Entry(workers[w].files[1].kind).opens
        /\ Len(out_file[1].rows) = 1

\* C10: the percentages a run passes to progress_cb never decrease and lie in
\* 0..100.
C10_ProgressMonotone ==
    \A w \in Runs :
        LET pcts == workers[w].pcts
        IN /\ \A i \in 1..Len(pcts) : pcts[i] \in 0..100
           /\ \A i \in 1..Len(pcts) - 1 : pcts[i] <= pcts[i + 1]

\* A cancelled run that had emitted a percentage below 100 before.
C10_Witness ==
    \E w \in Runs :
        /\ workers[w].outcome = "Cancelled"
        /\ Len(workers[w].pcts) >= 2
        /\ workers[w].pcts[1] < 100

(***************************************************************************)
(* The combined table (safe_concat called on its own, SpecConcat).         *)
(***************************************************************************)
\* Number of rows in the tables before the t-th.
RECURSIVE RowsBefore(_, _)
RowsBefore(dfs, t) ==
    IF t <= 1 THEN 0 ELSE RowsBefore(dfs, t - 1) + Len(dfs[t - 1].rows)

\* Every column name met, table after table, left to right.
RECURSIVE Scanned(_)
Scanned(dfs) ==
    IF dfs = <<>> THEN <<>> ELSE Head(dfs).cols \o Scanned(Tail(dfs))

\* C11: the combined table has as many rows as its tables together; the
\* r-th row of the t-th table is the row just after all rows of the tables
\* before it and the rows before it in its own table; under each column of
\* its table the row holds the value it held there, and under every other
\* column NaN; no column of a table is missing from the combined table.
C11_NothingLostNothingTwice ==
    ret # <<>> =>
        LET dfs == call.dataframes
            out == ret[1]
        IN /\ Len(out.rows) = RowsBefore(dfs, Len(dfs) + 1)
           /\ \A t \in 1..Len(dfs) :
                 /\ \A j \in 1..Len(dfs[t].cols) :
                       \E k \in 1..Len(out.cols) : out.cols[k] = dfs[t].cols[j]
                 /\ \A r \in 1..Len(dfs[t].rows) :
                       LET row == out.rows[RowsBefore(dfs, t) + r]
                       IN /\ Len(row) = Len(out.cols)
                          /\ \A k \in 1..Len(out.cols) :
                                IF out.cols[k] \in ColSet(dfs[t])
                                THEN \E j \in 1..Len(dfs[t].cols) :
                                        /\ dfs[t].cols[j] = out.cols[k]
                                        /\ row[k] = dfs[t].rows[r][j]
                                ELSE row[k] = NaN

\* Tables with columns [A,B], [B,C], [A,C], the second of two rows, have
\* been combined under the header [A,B,C].
C11_Witness ==
    /\ ret # <<>>
    /\ ~call.again
    /\ Len(call.dataframes) = 3
    /\ call.dataframes[1].cols = <<"A", "B">>
    /\ call.dataframes[2].cols = <<"B", "C">>
    /\ call.dataframes[3].cols = <<"A", "C">>
    /\ Len(call.dataframes[2].rows) = 2
    /\ ret[1].cols = <<"A", "B", "C">>
    /\ Len(ret[1].rows) >= 3

\* C12: the combined table's columns are the names of its tables' columns,
\* each once, a name before another exactly when it is met first in the scan
\* of the tables; there are at least as many as in any one table.
C12_OrderedUnion ==
    ret # <<>> =>
        LET dfs == call.dataframes
            cols == ret[1].cols
            scan == Scanned(dfs)
            First(c) == CHOOSE i \in 1..Len(scan) :
                            scan[i] = c /\ \A j \in 1..(i - 1) : scan[j] # c
        IN /\ \A i, j \in 1..Len(cols) : i # j => cols[i] # cols[j]
           /\ {cols[i] : i \in 1..Len(cols)} = {scan[i] : i \in 1..Len(scan)}
           /\ \A i, j \in 1..Len(cols) :
                 i < j => First(cols[i]) < First(cols[j])
           /\ \A t \in 1..Len(dfs) : Len(cols) >= Len(dfs[t].cols)

\* A second table brought a new name, A, ahead of a name already seen: the
\* new name went last.
C12_Witness ==
    /\ ret # <<>>
    /\ ~call.again
    /\ Len(call.dataframes) = 2
    /\ call.dataframes[1].cols = <<"B", "C">>
    /\ call.dataframes[2].cols = <<"A", "B">>
    /\ ret[1].cols = <<"B", "C", "A">>

\* C13: when safe_concat is called on the tables it reindexed, reindexing
\* leaves every one of them as it is, and the combined table has their
\* column list and their rows, one table after the other, unchanged.
C13_Idempotent ==
    (ret # <<>> /\ call.again) =>
        LET dfs == call.dataframes
            out == ret[1]
        IN /\ Reindexed(dfs) = dfs
           /\ \A t \in 1..Len(dfs) : out.cols = dfs[t].cols
           /\ Len(out.rows) = RowsBefore(dfs, Len(dfs) + 1)
           /\ \A t \in 1..Len(dfs) : \A r \in 1..Len(dfs[t].rows) :
                 out.rows[RowsBefore(dfs, t) + r] = dfs[t].rows[r]

\* The second call has returned, for tables that did not share their columns
\* at first.
C13_Witness ==
    /\ ret # <<>>
    /\ call.again
    /\ Len(call.given) >= 2
    /\ call.given[1].cols # call.given[2].cols
    /\ call.dataframes[1].cols = call.dataframes[2].cols
    /\ \E k \in 1..Len(ret[1].cols) : ret[1].rows[1][k] = NaN

(***************************************************************************)
(* The file locator (list_excel_files called on its own, SpecLocator).     *)
(***************************************************************************)
\* C14: the list returned is in increasing order of full path, no path
\* twice, and holds exactly the entries of the tree that are regular files
\* with extension .xlsx or .xlsm in any letter case and a base name that
\* does not start with "~$"; when the call is not recursive, only those that
\* are direct children of the directory.
C14_LocatorExact ==
    ret # <<>> =>
        LET files == ret[1]
            tree == call.tree
            Found == {files[i] : i \in 1..Len(files)}
            Wanted ==
                {tree[i] : i \in
                    {j \in 1..Len(tree) :
                        /\ Entry(tree[j].kind).isfile
                        /\ Lower(Entry(tree[j].kind).ext) \in {".xlsx", ".xlsm"}
                        /\ Entry(tree[j].kind).prefix # "~$"
                        /\ ~call.recursive => ~tree[j].sub}}
        IN /\ \A i, j \in 1..Len(files) : i < j => files[i].path < files[j].path
           /\ Found = Wanted

(***************************************************************************)
(* The shell's start and cancel requests.                                  *)
(***************************************************************************)
\* C15: no worker is ever created for a source path that is missing or no
\* directory, an empty sheet name or an empty output path; and the step in
\* which such a start request is turned down (the warning comes up) leaves
\* the log, the progress bar, the status line, the stop flag, both buttons,
\* the queues and the workers as they were.
C15_InvalidStartRejected ==
    /\ [](\A w \in Runs :
            workers[w].pc # "none" =>
                /\ workers[w].directory = "source"
                /\ workers[w].sheet_name \notin {"", " "}
                /\ workers[w].out_path # "")
    /\ [][(dialog = "" /\ dialog' # "") =>
            UNCHANGED <<txt_log, progress, lbl_status, stop_flag, btn_start,
                        btn_stop, log_q, after_q, worker, workers, out_file>>]_vars

\* A start request is turned down after a run that was asked to stop: the
\* warning is up, the log of the run and the set stop flag are still there.
C15_Witness ==
    /\ dialog # ""
    /\ worker = 1
    /\ stop_flag
    /\ txt_log # <<>>
    /\ btn_start = "normal"

\* Number of lines in the log widget that record a request to cancel.
Requests(log) == Cardinality({i \in 1..Len(log) : log[i].tag = "SOLICITANDO"})

\* C16: a step taken while no worker is alive, a press of the cancel button
\* among them, does not set the stop flag and writes no cancel request into
\* the log; the press changes nothing at all.
C16_IdleCancelNoOp ==
    [][(\A w \in Runs : ~is_alive(w)) =>
          /\ stop_flag' => stop_flag
          /\ Requests(txt_log') <= Requests(txt_log)
          /\ (on_stop => UNCHANGED vars)]_vars

\* The cancel button can be pressed, no worker is alive, nothing is left to
\* deliver and the stop flag is clear: a press leaves this state as it is.
C16_Witness ==
    /\ btn_stop = "normal"
    /\ dialog = ""
    /\ worker # 0
    /\ \A w \in Runs : ~is_alive(w)
    /\ ~stop_flag
    /\ after_q = <<>>
    /\ log_q = <<>>

\* C17: once the run has ended and the shell has handled every progress
\* update and shown every log line, so that nothing is left that could
\* change a button, the start button is enabled and the cancel button
\* disabled.
C17_ReadyAfterRun ==
    (/\ worker # 0
     /\ \A w \in Runs : ~is_alive(w)
     /\ after_q = <<>>
     /\ log_q = <<>>)
    => (btn_start = "normal" /\ btn_stop = "disabled")

(***************************************************************************)
(* The end of a run (the worker by itself, SpecWorker).                    *)
(***************************************************************************)
\* The status messages that tell a terminal state.
TerminalMsgs ==
    {"Concluido.", "Cancelado.", "Erro.", "Erro ao salvar.",
     "Pronto (0 arquivos).", "Pronto (sem dados)."}

\* The places in the queue of progress updates that hold a terminal update
\* of run w.
TerminalEvents(w) ==
    {i \in 1..Len(after_q) :
        after_q[i].run = w /\ after_q[i].msg \in TerminalMsgs}

\* C18: whenever a worker is alive, a time comes when none is: the worker
\* that was started ends; it has a terminal state exactly when it has ended; it has produced no terminal progress update before it ends
\* and exactly one when it has ended, which is the last event it produced;
\* once ended it changes no more and produces no log line and no progress
\* update.
C18_RunEndsOnce ==
    /\ (\E w \in Runs : is_alive(w)) ~> (\A w \in Runs : ~is_alive(w))
    /\ [](\A w \in Runs :
            /\ Ended(w) <=> workers[w].outcome \in Terminal
            /\ Cardinality(TerminalEvents(w)) = IF Ended(w) THEN 1 ELSE 0
            /\ Ended(w) =>
                  /\ Last(after_q).run = w
                  /\ Last(after_q).msg \in TerminalMsgs
                  /\ \A i \in 1..Len(log_q) :
                        log_q[i].run = w => log_q[i].seq < Last(after_q).seq)
    /\ [][\A w \in Runs :
             Ended(w) => /\ workers'[w] = workers[w]
                         /\ log_q' = log_q
                         /\ after_q' = after_q]_vars

\* A run over two files has ended Completed: two updates for the files, then
\* the terminal one.
C18_Witness ==
    /\ Ended(1)
    /\ workers[1].outcome = "Completed"
    /\ Len(workers[1].files) = 2
    /\ Len(after_q) = 3
    /\ Last(after_q).msg = "Concluido."

(***************************************************************************)
(* The stop flag from one run to the next.                                 *)
(***************************************************************************)
\* C19: a worker that ended Cancelled was alive when the cancel button set
\* the stop flag; and the step that creates a worker leaves the stop flag
\* clear.
C19_CancelledOnlyIfAsked ==
    /\ [](\A w \in Runs : workers[w].outcome = "Cancelled" => workers[w].asked)
    /\ [][worker' # worker => ~stop_flag']_vars

\* The first run was asked to stop too late and ended otherwise; the second
\* run, never asked to stop, went through its file and ended Completed.
C19_Witness ==
    /\ worker = 2
    /\ Ended(1)
    /\ workers[1].asked
    /\ workers[1].outcome # "Cancelled"
    /\ Ended(2)
    /\ ~workers[2].asked
    /\ workers[2].processed >= 1
    /\ workers[2].outcome = "Completed"
====
